---- MODULE Spec2Model ----
(***************************************************************************)
(* Notes service: an HTTP router in front of a Storage Accessor that       *)
(* issues one SQL statement per call (cmd/server/main.go, pkg/db/db.go).   *)
(*                                                                         *)
(* Strings are sequences of one-character strings, so that parsing         *)
(* (strconv.Atoi), JSON decoding and ILIKE matching are computed and not   *)
(* assumed.  The table is a set of rows; the SERIAL column is the counter  *)
(* seq.  Each SQL statement is one atomic step of the database; a handler  *)
(* is a validation step (Receive) followed, when validation passes, by     *)
(* its single statement (Exec), so requests on different connections       *)
(* interleave between the two.                                             *)
(***************************************************************************)
EXTENDS Integers, Sequences, FiniteSets, TLC

VARIABLES
    table,      \* rows of notes(id, title, content)
    seq,        \* next value of the SERIAL sequence behind notes.id
    conns,      \* per connection: its net/http state and the request being served
    resp,       \* the response written last, with what its handler did
    issued,     \* history: ids returned by successful CreateNote calls, in order
    deleted,    \* history: ids whose DeleteNote succeeded
    pristine,   \* history: ids created and neither updated nor deleted since
    lastWrite,  \* history: per stored id, the pair of the last applied write
    mainpc,     \* where main() is: "serve", "signalled", "shutdown", "exited"
    listening,  \* the listener of srv is open
    clock,      \* seconds since srv.Shutdown was called
    exitCode,   \* -1 while running, 0 main returned, 1 log.Fatalf
    late,       \* history: a request was read after main called srv.Shutdown
    killed,     \* history: a request was cut off by the process exiting
    sres        \* result of the last direct SearchNotes call

vars == <<table, seq, conns, resp, issued, deleted, pristine, lastWrite,
          mainpc, listening, clock, exitCode, late, killed, sres>>

----------------------------------------------------------------------------
(* Bounds *)

MaxId == 2
MaxConcId == 1
MaxConns == 2
MaxQueryLen == 2

(* context.WithTimeout(context.Background(), 5*time.Second) *)
ShutdownTimeout == 5

Conns == 1..MaxConns

----------------------------------------------------------------------------
(* Strings *)

TA == <<"a">>
TB == <<"b">>
Empty == <<>>

Digits == <<"0", "1", "2", "3", "4", "5", "6", "7", "8", "9">>

DigitSet == {Digits[i] : i \in 1..10}

DigitVal(ch) == (CHOOSE i \in 1..10 : Digits[i] = ch) - 1

RECURSIVE DecVal(_)
DecVal(d) ==
    IF d = <<>> THEN 0
    ELSE 10 * DecVal(SubSeq(d, 1, Len(d) - 1)) + DigitVal(d[Len(d)])

(* strconv.Atoi: optional sign, then one or more decimal digits.  The      *)
(* segments considered are short, so the range error is not reachable.     *)
Atoi(s) ==
    LET signed == s # <<>> /\ s[1] \in {"+", "-"}
        d == IF signed THEN Tail(s) ELSE s
    IN  IF d = <<>> \/ \E i \in 1..Len(d) : d[i] \notin DigitSet
        THEN [err |-> TRUE, n |-> 0]
        ELSE [err |-> FALSE,
              n |-> IF s[1] = "-" THEN 0 - DecVal(d) ELSE DecVal(d)]

(* Lower-casing of one character, as ILIKE folds case. *)
Lower(ch) ==
    CASE ch = "A" -> "a"
      [] ch = "B" -> "b"
      [] OTHER -> ch

----------------------------------------------------------------------------
(* Notes and the Storage Accessor (pkg/db/db.go) *)

ZeroNote == [id |-> 0, title |-> Empty, content |-> Empty]

Matching(rows, id) == {r \in rows : r.id = id}

(* SELECT id, title, content FROM notes WHERE id = $1; sql.ErrNoRows is    *)
(* turned into "note not found".                                           *)
GetNote(rows, id) ==
    IF Matching(rows, id) = {}
    THEN [err |-> "note not found", note |-> ZeroNote]
    ELSE [err |-> "", note |-> CHOOSE r \in Matching(rows, id) : TRUE]

(* Mutant: the two parameters bound in the wrong order. *)
CreateNote_Swapped(rows, s, title, content) ==
    [rows |-> rows \cup {[id |-> s, title |-> content, content |-> title]},
     seq |-> s + 1, id |-> s, err |-> ""]

(* Mutant: the id taken as one more than the largest stored id, instead   *)
(* of from a sequence.                                                     *)
CreateNote_MaxPlusOne(rows, s, title, content) ==
    LET top == IF rows = {} THEN 0
               ELSE CHOOSE i \in {r.id : r \in rows} :
                        \A r \in rows : r.id <= i
    IN  [rows |-> rows \cup {[id |-> top + 1, title |-> title,
                              content |-> content]},
         seq |-> s + 1, id |-> top + 1, err |-> ""]

(* INSERT INTO notes (title, content) VALUES ($1, $2) RETURNING id: the id *)
(* is the next value of the SERIAL sequence, which never goes back.        *)
CreateNote(rows, s, title, content) ==
    [rows |-> rows \cup {[id |-> s, title |-> title, content |-> content]},
     seq |-> s + 1, id |-> s, err |-> ""]

(* Mutant: RowsAffected is not looked at. *)
UpdateNote_NoRowCheck(rows, id, title, content) ==
    [rows |-> {IF r.id = id
               THEN [r EXCEPT !.title = title, !.content = content]
               ELSE r : r \in rows},
     err |-> ""]

(* Mutant: the statement sets the title only. *)
UpdateNote_TitleOnly(rows, id, title, content) ==
    [rows |-> {IF r.id = id THEN [r EXCEPT !.title = title] ELSE r :
                  r \in rows},
     err |-> IF Cardinality(Matching(rows, id)) = 0
             THEN "note not found" ELSE ""]

(* UPDATE notes SET title = $1, content = $2 WHERE id = $3, then           *)
(* RowsAffected() = 0 gives "note not found".                              *)
UpdateNote(rows, id, title, content) ==
    [rows |-> {IF r.id = id
               THEN [r EXCEPT !.title = title, !.content = content]
               ELSE r : r \in rows},
     err |-> IF Cardinality(Matching(rows, id)) = 0
             THEN "note not found" ELSE ""]

(* DELETE FROM notes WHERE id = $1, then RowsAffected() = 0 gives          *)
(* "note not found".                                                       *)
DeleteNote(rows, id) ==
    [rows |-> rows \ Matching(rows, id),
     err |-> IF Cardinality(Matching(rows, id)) = 0
             THEN "note not found" ELSE ""]

(* text ILIKE pattern, as PostgreSQL matches it: % is any run of           *)
(* characters, _ is any one character, a backslash makes the next pattern  *)
(* character literal, and letters compare without case.  A pattern that    *)
(* ends in a lone backslash is an error in PostgreSQL; SearchNotes always  *)
(* appends % to the pattern, so that case is not reachable.                *)
RECURSIVE ILike(_, _)
ILike(t, p) ==
    IF p = <<>> THEN t = <<>>
    ELSE IF p[1] = "\\" THEN
        /\ Len(p) >= 2
        /\ t # <<>>
        /\ Lower(t[1]) = Lower(p[2])
        /\ ILike(Tail(t), Tail(Tail(p)))
    ELSE IF p[1] = "%" THEN
        \/ ILike(t, Tail(p))
        \/ t # <<>> /\ ILike(Tail(t), p)
    ELSE IF p[1] = "_" THEN
        t # <<>> /\ ILike(Tail(t), Tail(p))
    ELSE
        t # <<>> /\ Lower(t[1]) = Lower(p[1]) /\ ILike(Tail(t), Tail(p))

(* SearchNotes: every row for the empty query, else the rows whose title   *)
(* or content is ILIKE "%"+query+"%".  The result carries no order.        *)
SearchNotes(rows, query) ==
    IF query = <<>> THEN rows
    ELSE LET pat == <<"%">> \o query \o <<"%">>
         IN  {r \in rows : ILike(r.title, pat) \/ ILike(r.content, pat)}

----------------------------------------------------------------------------
(* Requests *)

NoQ == [present |-> FALSE, v |-> Empty]
Q(s) == [present |-> TRUE, v |-> s]

(* r.URL.Query().Get("q"): the empty string when q is absent. *)
QueryGet(q) == IF q.present THEN q.v ELSE Empty

JStr(s) == [t |-> "string", s |-> s]
JNum == [t |-> "number", s |-> Empty]
JNull == [t |-> "null", s |-> Empty]
Member(k, v) == [key |-> k, val |-> v]

NoBody == [kind |-> "none", members |-> <<>>]
BGarbage == [kind |-> "garbage", members |-> <<>>]
BNull == [kind |-> "null", members |-> <<>>]
Obj(ms) == [kind |-> "object", members |-> ms]

(* encoding/json matches an object key to a struct field by its tag,       *)
(* ignoring case.                                                          *)
Field(key) ==
    CASE key \in {"title", "Title", "TITLE"} -> "title"
      [] key \in {"content", "Content", "CONTENT"} -> "content"
      [] key \in {"id", "Id", "ID"} -> "id"
      [] OTHER -> ""

RECURSIVE DecodeMembers(_, _)
DecodeMembers(ms, acc) ==
    IF ms = <<>> THEN acc
    ELSE LET m == ms[1]
             f == Field(m.key)
             next ==
                 CASE f = "" \/ m.val.t = "null" -> acc
                   [] f = "title" /\ m.val.t = "string" ->
                        [acc EXCEPT !.Title = m.val.s]
                   [] f = "content" /\ m.val.t = "string" ->
                        [acc EXCEPT !.Content = m.val.s]
                   [] f = "id" /\ m.val.t = "number" -> acc
                   [] OTHER -> [acc EXCEPT !.err = TRUE]
         IN  DecodeMembers(Tail(ms), next)

(* json.NewDecoder(r.Body).Decode(&note) into a zero Note: an empty or     *)
(* malformed body is an error, null leaves the note zero, an object sets   *)
(* the fields it names and reports a value of the wrong type as an error.  *)
Decode(body) ==
    LET zero == [err |-> FALSE, Title |-> Empty, Content |-> Empty]
    IN  CASE body.kind = "object" -> DecodeMembers(body.members, zero)
          [] body.kind = "null" -> zero
          [] OTHER -> [zero EXCEPT !.err = TRUE]

Bodies ==
    { BGarbage, BNull, Obj(<<>>),
      Obj(<<Member("title", JStr(TA))>>),
      Obj(<<Member("content", JStr(TB))>>),
      Obj(<<Member("title", JStr(Empty)), Member("content", JStr(TB))>>),
      Obj(<<Member("title", JNum), Member("content", JStr(TB))>>),
      Obj(<<Member("title", JStr(TA)), Member("content", JStr(TB))>>),
      Obj(<<Member("Title", JStr(TB)), Member("content", JStr(TA))>>) }

SearchSeg == <<"s", "e", "a", "r", "c", "h">>

Segs ==
    {<<Digits[i + 1]>> : i \in 0..MaxId}
        \cup {<<"x">>, <<"-", "1">>, SearchSeg}

Req(m, p, q, b) == [method |-> m, path |-> p, q |-> q, body |-> b]

NoReq == Req("", <<>>, NoQ, NoBody)

(* path <<>> is /api/v1/notes, path <<s>> is /api/v1/notes/s *)
Requests ==
    {Req("GET", <<s>>, NoQ, NoBody) : s \in Segs}
        \cup {Req("GET", <<SearchSeg>>, q, NoBody) : q \in {Q(Empty), Q(TA)}}
        \cup {Req("DELETE", <<s>>, NoQ, NoBody) : s \in Segs}
        \cup {Req("POST", <<>>, NoQ, b) : b \in Bodies}
        \cup {Req("PUT", <<s>>, NoQ, b) : s \in Segs, b \in Bodies}
        \cup {Req("GET", <<>>, NoQ, NoBody)}

----------------------------------------------------------------------------
(* Router (main.go, router.HandleFunc ... .Methods(...)) *)

(* The routes in the order main registers them. *)
Routes ==
    << [pat |-> "id", method |-> "GET", handler |-> "get"],
       [pat |-> "root", method |-> "POST", handler |-> "create"],
       [pat |-> "id", method |-> "PUT", handler |-> "update"],
       [pat |-> "id", method |-> "DELETE", handler |-> "delete"],
       [pat |-> "search", method |-> "GET", handler |-> "search"] >>

(* "/api/v1/notes/{id}" matches any one non-empty segment, "search"        *)
(* included; "/api/v1/notes/search" matches that segment only.             *)
PathMatches(pat, path) ==
    CASE pat = "root" -> path = <<>>
      [] pat = "id" -> Len(path) = 1 /\ path[1] # <<>>
      [] pat = "search" -> path = <<SearchSeg>>
      [] OTHER -> FALSE

RouteMatches(i, req) ==
    PathMatches(Routes[i].pat, req.path) /\ Routes[i].method = req.method

(* mux.Router walks its routes in registration order and serves the first  *)
(* one that matches; with none, 405 when some route matched the path and   *)
(* 404 otherwise.                                                          *)
Dispatch(req) ==
    LET hits == {i \in 1..Len(Routes) : RouteMatches(i, req)}
    IN  IF hits # {}
        THEN Routes[CHOOSE i \in hits : \A j \in hits : i <= j].handler
        ELSE IF \E i \in 1..Len(Routes) : PathMatches(Routes[i].pat, req.path)
        THEN "405"
        ELSE "404"

----------------------------------------------------------------------------
(* Handlers (cmd/server/main.go) *)

(* id, err := strconv.Atoi(mux.Vars(r)["id"]) *)
IdOf(req) == Atoi(req.path[1])

(* Mutant: id < 0 refused instead of id <= 0. *)
ValidId_NonNegative(req) == ~IdOf(req).err /\ IdOf(req).n >= 0

(* the handler goes on only when err == nil and id > 0 *)
ValidId(req) == ~IdOf(req).err /\ IdOf(req).n > 0

(* Mutant: the check of the decoded fields left out. *)
ValidBody_DecodeOnly(req) == ~Decode(req.body).err

(* the body decodes and note.Title and note.Content are both non-empty *)
ValidBody(req) ==
    /\ ~Decode(req.body).err
    /\ Decode(req.body).Title # Empty
    /\ Decode(req.body).Content # Empty

Pass == [status |-> 0, msg |-> ""]
Refuse(status, msg) == [status |-> status, msg |-> msg]

(* Mutant: only the title checked. *)
BodyCheck_TitleOnly(req) ==
    IF Decode(req.body).err THEN Refuse(400, "Invalid request")
    ELSE IF Decode(req.body).Title = Empty
    THEN Refuse(400, "Title and content required")
    ELSE Pass

BodyCheck(req) ==
    IF Decode(req.body).err THEN Refuse(400, "Invalid request")
    ELSE IF ~ValidBody(req) THEN Refuse(400, "Title and content required")
    ELSE Pass

(* What handler h answers before it calls the Storage Accessor, or Pass.   *)
(* The handlers for {id} check the id first, PUT before it reads the body. *)
Precheck(h, req) ==
    CASE h = "get" ->
            IF ValidId(req) THEN Pass ELSE Refuse(400, "Invalid ID")
      [] h = "create" -> BodyCheck(req)
      [] h = "update" ->
            IF ValidId(req) THEN BodyCheck(req) ELSE Refuse(400, "Invalid ID")
      [] h = "delete" ->
            IF ValidId(req) THEN Pass ELSE Refuse(400, "Invalid ID")
      [] h = "search" ->
            IF QueryGet(req.q) # Empty THEN Pass
            ELSE Refuse(400, "Missing query parameter 'q'")
      [] h = "405" -> Refuse(405, "")
      [] OTHER -> Refuse(404, "404 page not found")

NoOut == [kind |-> "none", note |-> ZeroNote, notes |-> {}]
NoteOut(n) == [kind |-> "note", note |-> n, notes |-> {}]
SearchOut(ns) == [kind |-> "search", note |-> ZeroNote, notes |-> ns]

(* err.Error() == "note not found" gives 404, any other error 500 *)
ErrStatus(err) == IF err = "note not found" THEN 404 ELSE 500

ErrMsg(err) ==
    IF err = "note not found" THEN "Note not found"
    ELSE "Internal server error"

Result(rows, s, status, msg, out, called, id) ==
    [rows |-> rows, seq |-> s, status |-> status, msg |-> msg, out |-> out,
     called |-> called, id |-> id]

(* The part of handler h from its Storage Accessor call on, on table rows  *)
(* and sequence s.  dbok = FALSE is the driver failing the statement: the  *)
(* accessor returns that error and the table is as it was.                 *)
Serve(h, req, rows, s, dbok) ==
    LET id == IF h \in {"get", "update", "delete"} THEN IdOf(req).n ELSE 0
        note == Decode(req.body)
        fail == Result(rows, s, 500, "Internal server error", NoOut, h, id)
    IN  CASE ~dbok -> fail
          [] h = "get" ->
                LET g == GetNote(rows, id)
                IN  IF g.err # ""
                    THEN Result(rows, s, ErrStatus(g.err), ErrMsg(g.err),
                                NoOut, h, id)
                    ELSE Result(rows, s, 200, "", NoteOut(g.note), h, id)
          [] h = "create" ->
                LET c == CreateNote(rows, s, note.Title, note.Content)
                IN  IF c.err # "" THEN fail
                    ELSE Result(c.rows, c.seq, 201, "",
                                NoteOut([id |-> c.id, title |-> note.Title,
                                         content |-> note.Content]),
                                h, c.id)
          [] h = "update" ->
                LET u == UpdateNote(rows, id, note.Title, note.Content)
                IN  IF u.err # ""
                    THEN Result(u.rows, s, ErrStatus(u.err), ErrMsg(u.err),
                                NoOut, h, id)
                    ELSE Result(u.rows, s, 200, "", NoOut, h, id)
          [] h = "delete" ->
                LET d == DeleteNote(rows, id)
                IN  IF d.err # ""
                    THEN Result(d.rows, s, ErrStatus(d.err), ErrMsg(d.err),
                                NoOut, h, id)
                    ELSE Result(d.rows, s, 200, "", NoOut, h, id)
          [] OTHER ->
                Result(rows, s, 200, "",
                       SearchOut(SearchNotes(rows, QueryGet(req.q))), h, 0)

----------------------------------------------------------------------------
(* Connections and responses *)

Conn(st, req) == [st |-> st, req |-> req]

(* After a response net/http keeps the connection for the next request,    *)
(* unless the server is shutting down: then it closes it.                  *)
AfterResponse == IF mainpc = "shutdown" THEN "closed" ELSE "idle"

(* A response, with what the handler did to produce it: the accessor      *)
(* operation it called, whether the driver ran the statement, the id it    *)
(* was about, whether a row with that id was stored before, and whether    *)
(* the table or the sequence changed.                                      *)
Reply(req, h, status, msg, out, called, dbok, id, existed, wrote) ==
    [req |-> req, handler |-> h, status |-> status, msg |-> msg, out |-> out,
     called |-> called, dbok |-> dbok, id |-> id, existed |-> existed,
     wrote |-> wrote]

NoResp == Reply(NoReq, "", 0, "", NoOut, "none", TRUE, 0, FALSE, FALSE)

Active == {c \in Conns : conns[c].st = "active"}

PendingCreates ==
    Cardinality({c \in Active : Dispatch(conns[c].req) = "create"})

Init ==
    /\ table = {}
    /\ seq = 1
    /\ conns = [c \in Conns |-> Conn("closed", NoReq)]
    /\ resp = NoResp
    /\ issued = <<>>
    /\ deleted = {}
    /\ pristine = {}
    /\ lastWrite = {}
    /\ mainpc = "serve"
    /\ listening = TRUE
    /\ clock = 0
    /\ exitCode = -1
    /\ late = FALSE
    /\ killed = FALSE
    /\ sres = [called |-> FALSE, q |-> Empty, notes |-> {}]

dbVars == <<table, seq, issued, deleted, pristine, lastWrite>>
mainVars == <<mainpc, listening, clock, exitCode, killed>>

(* srv.ListenAndServe accepts a connection while the listener is open. *)
Accept(c) ==
    /\ listening
    /\ mainpc # "exited"
    /\ conns[c].st = "closed"
    /\ conns' = [conns EXCEPT ![c] = Conn("new", NoReq)]
    /\ UNCHANGED <<dbVars, mainVars, resp, late, sres>>

(* The client closes a connection that carries no request. *)
Close(c) ==
    /\ mainpc # "exited"
    /\ conns[c].st \in {"new", "idle"}
    /\ conns' = [conns EXCEPT ![c] = Conn("closed", NoReq)]
    /\ UNCHANGED <<dbVars, mainVars, resp, late, sres>>

(* A request is read from connection c, routed, and its handler runs up to *)
(* its Storage Accessor call: it answers at once when it refuses the       *)
(* request, else its statement is pending.  cap bounds the sequence: no    *)
(* create is taken that would draw an id above it.                         *)
Receive(c, req, cap) ==
    /\ mainpc # "exited"
    /\ conns[c].st \in {"new", "idle"}
    /\ LET h == Dispatch(req)
           pre == Precheck(h, req)
       IN  /\ (h = "create" /\ pre = Pass) => seq + PendingCreates <= cap
           /\ IF pre = Pass
              THEN /\ conns' = [conns EXCEPT ![c] = Conn("active", req)]
                   /\ resp' = resp
              ELSE /\ conns' = [conns EXCEPT ![c] = Conn(AfterResponse, NoReq)]
                   /\ resp' = Reply(req, h, pre.status, pre.msg, NoOut,
                                    "none", TRUE, 0, FALSE, FALSE)
    /\ late' = (late \/ mainpc = "shutdown")
    /\ UNCHANGED <<dbVars, mainVars, sres>>

(* The pending statement of connection c runs in the database and the      *)
(* handler writes its response.                                            *)
Exec(c, dbok) ==
    /\ mainpc # "exited"
    /\ conns[c].st = "active"
    /\ LET req == conns[c].req
           h == Dispatch(req)
           o == Serve(h, req, table, seq, dbok)
           pair == [id |-> o.id, title |-> Decode(req.body).Title,
                    content |-> Decode(req.body).Content]
       IN  /\ table' = o.rows
           /\ seq' = o.seq
           /\ resp' = Reply(req, h, o.status, o.msg, o.out, o.called, dbok,
                            o.id, Matching(table, o.id) # {},
                            o.rows # table \/ o.seq # seq)
           /\ issued' = IF h = "create" /\ o.status = 201
                        THEN Append(issued, o.id) ELSE issued
           /\ deleted' = IF h = "delete" /\ o.status = 200
                         THEN deleted \cup {o.id} ELSE deleted
           /\ pristine' =
                CASE h = "create" /\ o.status = 201 -> pristine \cup {o.id}
                  [] h \in {"update", "delete"} /\ o.status = 200 ->
                        pristine \ {o.id}
                  [] OTHER -> pristine
           /\ lastWrite' =
                CASE h = "create" /\ o.status = 201 -> lastWrite \cup {pair}
                  [] h = "update" /\ o.status = 200 ->
                        (lastWrite \ Matching(lastWrite, o.id)) \cup {pair}
                  [] h = "delete" /\ o.status = 200 ->
                        lastWrite \ Matching(lastWrite, o.id)
                  [] OTHER -> lastWrite
    /\ conns' = [conns EXCEPT ![c] = Conn(AfterResponse, NoReq)]
    /\ UNCHANGED <<mainVars, late, sres>>

(* One client connection: requests are served one after the other. *)
SeqConns == {1}

(* The requests of concurrent clients: POST, and PUT and DELETE of the ids *)
(* the sequence gives out there, with the bodies that give two strings.    *)
ConcRequests ==
    {r \in Requests :
        /\ r.method \in {"POST", "PUT", "DELETE"}
        /\ r.path # <<>> => (ValidId(r) /\ IdOf(r).n <= MaxConcId)
        /\ r.body.kind \in {"none", "object"}
        /\ r.body.kind = "object" =>
              Len(r.body.members) = 2 /\ ~Decode(r.body).err}

Next ==
    \/ \E c \in SeqConns : Accept(c)
    \/ \E c \in SeqConns, req \in Requests : Receive(c, req, MaxId)
    \/ \E c \in SeqConns, dbok \in BOOLEAN : Exec(c, dbok)

Spec == Init /\ [][Next]_vars

ConcNext ==
    \/ \E c \in Conns : Accept(c)
    \/ \E c \in Conns, req \in ConcRequests : Receive(c, req, MaxConcId)
    \/ \E c \in Conns : Exec(c, TRUE)

ConcSpec == Init /\ [][ConcNext]_vars

----------------------------------------------------------------------------
(* Shutdown (main.go, from signal.Notify to the end of main) *)

(* SIGINT or SIGTERM arrives: signal.Notify puts it on quit.  The server   *)
(* goroutine goes on serving until main has called srv.Shutdown.           *)
Signal ==
    /\ mainpc = "serve"
    /\ mainpc' = "signalled"
    /\ UNCHANGED <<dbVars, conns, resp, listening, clock, exitCode, killed,
                   late, sres>>

(* main receives from quit and calls srv.Shutdown(ctx) with the deadline   *)
(* running: the listener is closed and so is every idle connection.  A     *)
(* connection that was accepted and has sent no request yet is left open.  *)
BeginShutdown ==
    /\ mainpc = "signalled"
    /\ mainpc' = "shutdown"
    /\ listening' = FALSE
    /\ clock' = 0
    /\ conns' = [c \in Conns |->
                    IF conns[c].st = "idle" THEN Conn("closed", NoReq)
                    ELSE conns[c]]
    /\ UNCHANGED <<dbVars, resp, exitCode, killed, late, sres>>

(* A second of the deadline passes. *)
Tick ==
    /\ mainpc = "shutdown"
    /\ clock < ShutdownTimeout
    /\ clock' = clock + 1
    /\ UNCHANGED <<dbVars, conns, resp, mainpc, listening, exitCode, killed,
                   late, sres>>

(* While it polls, Shutdown closes a connection that has been new for more *)
(* than five seconds; how long ago c was accepted is not tracked.          *)
CloseStale(c) ==
    /\ mainpc = "shutdown"
    /\ conns[c].st = "new"
    /\ conns' = [conns EXCEPT ![c] = Conn("closed", NoReq)]
    /\ UNCHANGED <<dbVars, mainVars, resp, late, sres>>

(* Mutant: Shutdown waits for no connection that is serving a request. *)
Quiescent_IgnoresActive ==
    \A c \in Conns : conns[c].st \in {"closed", "active"}

(* Shutdown returns nil once no connection is left open. *)
Quiescent == \A c \in Conns : conns[c].st = "closed"

(* srv.Shutdown returned nil: main logs "Server exited." and returns. *)
ShutdownDone ==
    /\ mainpc = "shutdown"
    /\ Quiescent
    /\ mainpc' = "exited"
    /\ exitCode' = 0
    /\ killed' = (killed \/ Active # {})
    /\ conns' = [c \in Conns |-> Conn("closed", NoReq)]
    /\ UNCHANGED <<dbVars, resp, listening, clock, late, sres>>

(* The deadline expired first: Shutdown returns ctx.Err() and log.Fatalf   *)
(* exits the process, whatever is still in flight.                         *)
ShutdownExpired ==
    /\ mainpc = "shutdown"
    /\ clock = ShutdownTimeout
    /\ mainpc' = "exited"
    /\ exitCode' = 1
    /\ killed' = (killed \/ Active # {})
    /\ conns' = [c \in Conns |-> Conn("closed", NoReq)]
    /\ UNCHANGED <<dbVars, resp, listening, clock, late, sres>>

ShutRequests ==
    { Req("POST", <<>>, NoQ,
          Obj(<<Member("title", JStr(TA)), Member("content", JStr(TB))>>)),
      Req("DELETE", <<<<"1">>>>, NoQ, NoBody),
      Req("GET", <<<<"x">>>>, NoQ, NoBody) }

ShutdownNext ==
    \/ \E c \in Conns : Accept(c)
    \/ \E c \in Conns : Close(c)
    \/ \E c \in Conns, req \in ShutRequests : Receive(c, req, MaxId)
    \/ \E c \in Conns : Exec(c, TRUE)
    \/ Signal
    \/ BeginShutdown
    \/ Tick
    \/ \E c \in Conns : CloseStale(c)
    \/ ShutdownDone
    \/ ShutdownExpired

(* The main goroutine is scheduled and time passes; nothing makes a client *)
(* or a handler move.                                                      *)
ShutdownSpec ==
    /\ Init
    /\ [][ShutdownNext]_vars
    /\ WF_vars(BeginShutdown)
    /\ WF_vars(Tick)
    /\ WF_vars(ShutdownDone \/ ShutdownExpired)

----------------------------------------------------------------------------
(* SearchNotes on its own: the handler is not needed to call it. *)

MaxTextLen == 2

SearchAlphabet == {"a", "B", "%", "_", "\\"}

RECURSIVE Strs(_)
Strs(n) ==
    IF n = 0 THEN {<<>>}
    ELSE Strs(n - 1) \cup
         {Append(s, ch) : s \in {t \in Strs(n - 1) : Len(t) = n - 1},
                          ch \in SearchAlphabet}

SearchTexts == Strs(MaxTextLen) \ {<<>>}
SearchQueries == Strs(MaxQueryLen)

SearchTables ==
    LET first == {[id |-> 1, title |-> t, content |-> u] :
                    t \in SearchTexts, u \in {v \in SearchTexts : Len(v) = 1}}
        second == [id |-> 2, title |-> <<"B">>, content |-> <<"%">>]
    IN  {{}} \cup {{r} : r \in first} \cup {{r, second} : r \in first}

SearchInit ==
    /\ table \in SearchTables
    /\ seq = 3
    /\ conns = [c \in Conns |-> Conn("closed", NoReq)]
    /\ resp = NoResp
    /\ issued = <<>>
    /\ deleted = {}
    /\ pristine = {}
    /\ lastWrite = table
    /\ mainpc = "serve"
    /\ listening = TRUE
    /\ clock = 0
    /\ exitCode = -1
    /\ late = FALSE
    /\ killed = FALSE
    /\ sres = [called |-> FALSE, q |-> Empty, notes |-> {}]

SearchCall(q) ==
    /\ sres' = [called |-> TRUE, q |-> q, notes |-> SearchNotes(table, q)]
    /\ UNCHANGED <<dbVars, mainVars, conns, resp, late>>

SearchNext == \E q \in SearchQueries : SearchCall(q)

SearchSpec == SearchInit /\ [][SearchNext]_vars

----------------------------------------------------------------------------
(* Properties *)

GoodBodies ==
    { Obj(<<Member("title", JStr(TA)), Member("content", JStr(TB))>>),
      Obj(<<Member("Title", JStr(TB)), Member("content", JStr(TA))>>) }

BadSegs == {<<"0">>, <<"x">>, <<"-", "1">>, SearchSeg}

(* C1: a successful create answers 201 with the note it stored under the   *)
(* id it returns, and a get of an id that was created and not updated or   *)
(* deleted since answers 200 with the note as it was created.              *)
C1_CreateThenGet ==
    /\ (resp.handler = "create" /\ resp.status = 201) =>
          /\ resp.id > 0
          /\ resp.out.kind = "note"
          /\ resp.out.note.id = resp.id
          /\ resp.req.body \in GoodBodies
          /\ resp.out.note.title = resp.req.body.members[1].val.s
          /\ resp.out.note.content = resp.req.body.members[2].val.s
          /\ resp.out.note \in table
          /\ resp.id \in pristine
    /\ (resp.called = "get" /\ resp.dbok /\ resp.id \in pristine) =>
          /\ resp.status = 200
          /\ resp.out.kind = "note"
          /\ resp.out.note.id = resp.id
          /\ resp.out.note \in lastWrite

C1_Witness ==
    /\ resp.called = "get"
    /\ resp.status = 200
    /\ resp.id = 2
    /\ resp.id \in pristine
    /\ 1 \in deleted

(* C2: GET /api/v1/notes/search is served by the search handler: 400 from  *)
(* it when q is missing or empty, else 200 with the search result.         *)
C2_SearchRouted ==
    (resp.req.method = "GET" /\ resp.req.path = <<SearchSeg>>) =>
        /\ resp.handler = "search"
        /\ QueryGet(resp.req.q) = Empty =>
              resp.status = 400 /\ resp.msg = "Missing query parameter 'q'"
        /\ (QueryGet(resp.req.q) # Empty /\ resp.dbok) =>
              resp.status = 200 /\ resp.out.kind = "search"

C4_NotFound ==
    (resp.called \in {"update", "delete"} /\ resp.dbok /\ ~resp.existed) =>
        /\ resp.status = 404
        /\ resp.msg = "Note not found"
        /\ ~resp.wrote

C4_Witness ==
    /\ resp.called = "update"
    /\ ~resp.existed
    /\ resp.status = 404
    /\ table # {}

(* C6: GET, PUT and DELETE of /api/v1/notes/{id} with an id segment that   *)
(* is not a positive integer are answered 400 without any accessor call,   *)
(* for PUT whatever the body.                                              *)
C6_BadIdRefused ==
    /\ (/\ resp.req.method \in {"GET", "PUT", "DELETE"}
        /\ Len(resp.req.path) = 1
        /\ resp.req.path[1] \in BadSegs) =>
          /\ resp.status = 400
          /\ resp.called = "none"
          /\ ~resp.wrote
    /\ \A c \in Active :
          Len(conns[c].req.path) = 1 => conns[c].req.path[1] \notin BadSegs

C6_Witness ==
    /\ resp.req.method = "PUT"
    /\ resp.req.path = << <<"0">> >>
    /\ resp.req.body \in GoodBodies
    /\ resp.status = 400
    /\ table # {}

(* C7: a POST whose body does not decode, or decodes to an empty title or  *)
(* content, is answered 400 without CreateNote being called: table and     *)
(* sequence are as they were.                                              *)
C7_BadPostRefused ==
    /\ (/\ resp.req.method = "POST"
        /\ resp.req.path = <<>>
        /\ resp.req.body \notin GoodBodies) =>
          /\ resp.status = 400
          /\ resp.called = "none"
          /\ ~resp.wrote
    /\ \A c \in Active :
          conns[c].req.method = "POST" => conns[c].req.body \in GoodBodies

C7_Witness ==
    /\ resp.req.method = "POST"
    /\ resp.req.body = Obj(<<Member("content", JStr(TB))>>)
    /\ resp.status = 400
    /\ table # {}
    /\ seq = 2


(* q occurs in t as a substring, letters compared without case. *)
Contains(t, q) ==
    \E i \in 0..(Len(t) - Len(q)) :
        \A j \in 1..Len(q) : Lower(t[i + j]) = Lower(q[j])

(* C5: search returns every stored note for the empty query, and else      *)
(* exactly the notes whose title or content contains the query as a        *)
(* literal substring, case-insensitively, % and _ included.                *)
C5_SearchLiteral ==
    sres.called =>
        sres.notes =
            IF sres.q = Empty THEN table
            ELSE {r \in table :
                    Contains(r.title, sres.q) \/ Contains(r.content, sres.q)}

(* C8: a deleted id stays not found: no row carries it again, every later  *)
(* get, update and delete of it that the driver runs answers 404, and      *)
(* create never returns an id twice.                                       *)
C8_DeletedStaysGone ==
    /\ \A i \in deleted : Matching(table, i) = {}
    /\ (/\ resp.called \in {"get", "update", "delete"}
        /\ resp.dbok
        /\ resp.id \in deleted) =>
          \/ resp.status = 404
          \/ resp.called = "delete" /\ resp.status = 200 /\ resp.existed
    /\ \A j, k \in 1..Len(issued) : issued[j] = issued[k] => j = k
    /\ \A k \in 1..Len(issued) : issued[k] > 0

C8_Witness ==
    /\ resp.called = "get"
    /\ resp.id \in deleted
    /\ resp.status = 404
    /\ Len(issued) = 2
    /\ table # {}

(* C10: under interleaved PUTs and DELETEs each stored note is the whole   *)
(* pair of the write applied to its id last, one row per id, and an update *)
(* applied after the delete of its id answers 404 and stores nothing.      *)
C10_LastWriteWins ==
    /\ table = lastWrite
    /\ \A r1, r2 \in table : r1.id = r2.id => r1 = r2
    /\ \A r \in table :
          \E b \in GoodBodies :
              /\ r.title = Decode(b).Title
              /\ r.content = Decode(b).Content
    /\ (resp.called = "update" /\ resp.dbok /\ ~resp.existed) =>
          /\ resp.status = 404
          /\ Matching(table, resp.id) = {}

C10_Witness ==
    /\ resp.called = "update"
    /\ resp.status = 200
    /\ \E c \in Active :
          /\ conns[c].req.method = "PUT"
          /\ IdOf(conns[c].req).n = resp.id
          /\ conns[c].req.body # resp.req.body
          /\ conns[c].req.body \in GoodBodies
    /\ \E r \in table :
          /\ r.id = resp.id
          /\ r.title = Decode(resp.req.body).Title
          /\ r.content = Decode(resp.req.body).Content
          /\ r.id \notin pristine

ServingSafe ==
    (mainpc = "exited" /\ killed) =>
        exitCode = 1 /\ clock = ShutdownTimeout

NoAcceptInShutdown ==
    mainpc \in {"shutdown", "exited"} =>
        \A c \in Conns : conns[c].st = "closed" => conns'[c].st = "closed"

(* C9, as stated: once the signal is received (here even: once main has    *)
(* called srv.Shutdown) no request is read, and the process does not exit  *)
(* with a request in flight before the deadline.                           *)
C9_NoRequestAfterSignal == ~late /\ ServingSafe

(* C9, amended: once main has called srv.Shutdown no connection is         *)
(* accepted; the process exits with a request in flight only when the      *)
(* deadline has expired; and after the signal the process exits.           *)
C9_GracefulShutdown ==
    /\ [][NoAcceptInShutdown]_vars
    /\ []ServingSafe
    /\ (mainpc = "signalled") ~> (mainpc = "exited")

C9_Witness ==
    /\ mainpc = "exited"
    /\ exitCode = 0
    /\ late
    /\ resp.status = 201
    /\ clock > 0

====
